---- MODULE Spec2Model ----
(***************************************************************************)
(* Model of secrets.py: the credential resolver over the OS keyring.       *)
(*                                                                         *)
(* Python strings are sequences of one-character strings, so that          *)
(* str.strip() and the f-string key derivation are computed, not assumed.  *)
(* Python's None is the value None below.  The keyring backend is an       *)
(* external collaborator: each of its calls may succeed or fail, chosen by *)
(* a fault schedule that is an input of every operation.                   *)
(***************************************************************************)
EXTENDS Naturals, Sequences, FiniteSets

VARIABLES store, pc, last, ops

vars == <<store, pc, last, ops>>

----------------------------------------------------------------------------
(* Values *)

\* Python's None: a value that is no string of the model.
None == <<"None">>

\* The strings callers supply and the operator types at input().
Strings == { <<>>, <<"a">>, <<" ", "a", " ">> }

\* What the operator types at getpass().
PassPromptStrings == { <<>>, <<" ", "a", " ">> }

\* An optional argument: a string, or None when the caller leaves it out.
Optional == Strings \cup {None}

\* Most keyring calls in which one operation may meet a backend fault.
MaxFaults == 1

\* Most calls the caller makes in one run.
MaxOps == 2

\* get_basic_auth makes at most six keyring calls (two reads, two writes,
\* two re-reads); set_basic_auth and delete_basic_auth make two.
MaxCalls == 6

\* Python truthiness of an Optional[str]: None and "" are falsy.
Truthy(x) == x # None /\ x # <<>>

IsSpace(c) == c = " "

RECURSIVE lstrip(_)
lstrip(s) == IF s # <<>> /\ IsSpace(Head(s)) THEN lstrip(Tail(s)) ELSE s

RECURSIVE rstrip(_)
rstrip(s) ==
    IF s # <<>> /\ IsSpace(s[Len(s)]) THEN rstrip(SubSeq(s, 1, Len(s) - 1)) ELSE s

\* str.strip()
strip(s) == rstrip(lstrip(s))

----------------------------------------------------------------------------
(* Key naming *)

UserSuffix == <<":", "u", "s", "e", "r", "n", "a", "m", "e">>
PassSuffix == <<":", "p", "a", "s", "s", "w", "o", "r", "d">>

\* A mutant: the username is stored under the bare account name.
KeyNamesBare(account) == <<account, account \o PassSuffix>>

\* _key_names(account) -> (user_key, pass_key)
_key_names(account) == <<account \o UserSuffix, account \o PassSuffix>>

\* Account names key derivation is examined on, among them names that
\* themselves end in a key suffix.
AccountNames ==
    { <<>>, <<"p">>, <<"p">> \o UserSuffix, <<"p">> \o PassSuffix,
      UserSuffix, <<"p">> \o UserSuffix \o PassSuffix }

\* Accounts the operations are called with.
Accounts == { <<"p">>, <<"p">> \o UserSuffix }

KeysOf(account) == { _key_names(account)[1], _key_names(account)[2] }

AllKeys == UNION { KeysOf(a) : a \in Accounts }

EmptyStore == [k \in AllKeys |-> None]

----------------------------------------------------------------------------
(* The keyring backend: get_password, set_password, delete_password *)

NoExc == "none"

FaultKinds == {"ok", "raise", "drop", "cannot_delete"}

NoFaults == [i \in 1..MaxCalls |-> "ok"]

Schedules ==
    { f \in [1..MaxCalls -> FaultKinds] :
        Cardinality({i \in 1..MaxCalls : f[i] # "ok"}) <= MaxFaults }

\* The schedules whose faults are ones the calls of an operation can meet:
\* kinds[i] is the set of outcomes of the operation's i-th keyring call.
SchedulesOver(kinds) ==
    { f \in Schedules :
        \A i \in 1..MaxCalls :
            f[i] # "ok" => i <= Len(kinds) /\ f[i] \in kinds[i] }

GetFaults == {"raise"}
SetFaults == {"raise", "drop"}
DeleteFaults == {"raise", "cannot_delete"}

SetSchedules == SchedulesOver(<<SetFaults, SetFaults>>)
GetSchedules ==
    SchedulesOver(<<GetFaults, GetFaults, SetFaults, SetFaults, GetFaults,
                    GetFaults>>)
DeleteSchedules == SchedulesOver(<<DeleteFaults, DeleteFaults>>)

\* keyring.get_password: the stored value, None when absent, or an error.
KeyringGet(st, fault, key) ==
    IF fault = "raise"
    THEN [exc |-> "KeyringError", val |-> None, out |-> "raise"]
    ELSE [exc |-> NoExc, val |-> st[key], out |-> "ok"]

\* keyring.set_password: overwrites the key, raises, or returns normally
\* without having persisted the value.
KeyringSet(st, fault, key, v) ==
    IF fault = "raise"
    THEN [exc |-> "KeyringError", store |-> st, out |-> "raise"]
    ELSE IF fault = "drop"
    THEN [exc |-> NoExc, store |-> st, out |-> "drop"]
    ELSE [exc |-> NoExc, store |-> [st EXCEPT ![key] = v], out |-> "ok"]

\* keyring.delete_password: removes the key; raises PasswordDeleteError when
\* the key is absent or when the backend cannot delete it; or raises another
\* keyring error.
KeyringDelete(st, fault, key) ==
    IF fault = "raise"
    THEN [exc |-> "KeyringError", store |-> st, out |-> "raise"]
    ELSE IF st[key] = None
    THEN [exc |-> "PasswordDeleteError", store |-> st, out |-> "not_found"]
    ELSE IF fault = "cannot_delete"
    THEN [exc |-> "PasswordDeleteError", store |-> st, out |-> "cannot_delete"]
    ELSE [exc |-> NoExc, store |-> [st EXCEPT ![key] = None], out |-> "ok"]

Call(op, out) == [call |-> op, out |-> out]

----------------------------------------------------------------------------
(* Environment *)

\* Values of PI_USER and of PI_PASS: unset, empty, or a non-empty string.
EnvUserValues == { None, <<>>, <<"a">> }
EnvPassValues == { None, <<>>, <<" ", "a", " ">> }

\* A mutant: either variable alone counts as an override.
EnvCredentialsEither(envUser, envPass) ==
    IF Truthy(envUser) \/ Truthy(envPass) THEN <<envUser, envPass>> ELSE None

\* _env_credentials(): the pair when both variables are non-empty, else None.
_env_credentials(envUser, envPass) ==
    IF Truthy(envUser) /\ Truthy(envPass) THEN <<envUser, envPass>> ELSE None

----------------------------------------------------------------------------
(* set_basic_auth *)

\* A mutant: the supplied username is normalised like a prompted one.
SetBasicAuthStripping(st, f, k0, account, username, password, pu, pp) ==
    LET keys == _key_names(account)
        u == IF Truthy(username) THEN strip(username) ELSE strip(pu)
        p == IF Truthy(password) THEN password ELSE pp
        w1 == KeyringSet(st, f[k0 + 1], keys[1], u)
        w2 == KeyringSet(w1.store, f[k0 + 2], keys[2], p)
        t1 == <<Call("set", w1.out)>>
    IN  IF w1.exc # NoExc
        THEN [store |-> w1.store, exc |-> w1.exc, trace |-> t1,
              promptedUser |-> ~Truthy(username),
              promptedPass |-> ~Truthy(password)]
        ELSE [store |-> w2.store, exc |-> w2.exc,
              trace |-> Append(t1, Call("set", w2.out)),
              promptedUser |-> ~Truthy(username),
              promptedPass |-> ~Truthy(password)]

\* A mutant: the prompted username is stored as typed, without strip().
SetBasicAuthRawPrompt(st, f, k0, account, username, password, pu, pp) ==
    LET keys == _key_names(account)
        u == IF Truthy(username) THEN username ELSE pu
        p == IF Truthy(password) THEN password ELSE pp
        w1 == KeyringSet(st, f[k0 + 1], keys[1], u)
        w2 == KeyringSet(w1.store, f[k0 + 2], keys[2], p)
        t1 == <<Call("set", w1.out)>>
    IN  IF w1.exc # NoExc
        THEN [store |-> w1.store, exc |-> w1.exc, trace |-> t1,
              promptedUser |-> ~Truthy(username),
              promptedPass |-> ~Truthy(password)]
        ELSE [store |-> w2.store, exc |-> w2.exc,
              trace |-> Append(t1, Call("set", w2.out)),
              promptedUser |-> ~Truthy(username),
              promptedPass |-> ~Truthy(password)]

\* set_basic_auth(account, username, password), its keyring calls drawing
\* their outcomes from f[k0 + 1], f[k0 + 2].  pu and pp are what the operator
\* types at input() and getpass(); both prompts precede both writes.
set_basic_auth(st, f, k0, account, username, password, pu, pp) ==
    LET keys == _key_names(account)
        u == IF Truthy(username) THEN username ELSE strip(pu)
        p == IF Truthy(password) THEN password ELSE pp
        w1 == KeyringSet(st, f[k0 + 1], keys[1], u)
        w2 == KeyringSet(w1.store, f[k0 + 2], keys[2], p)
        t1 == <<Call("set", w1.out)>>
    IN  IF w1.exc # NoExc
        THEN [store |-> w1.store, exc |-> w1.exc, trace |-> t1,
              promptedUser |-> ~Truthy(username),
              promptedPass |-> ~Truthy(password)]
        ELSE [store |-> w2.store, exc |-> w2.exc,
              trace |-> Append(t1, Call("set", w2.out)),
              promptedUser |-> ~Truthy(username),
              promptedPass |-> ~Truthy(password)]

----------------------------------------------------------------------------
(* get_basic_auth *)

\* The two keyring reads of an account's keys.
ReadPair(st, f, k0, account) ==
    LET keys == _key_names(account)
        g1 == KeyringGet(st, f[k0 + 1], keys[1])
        g2 == KeyringGet(st, f[k0 + 2], keys[2])
        t1 == <<Call("get", g1.out)>>
    IN  IF g1.exc # NoExc
        THEN [exc |-> g1.exc, user |-> None, pass |-> None, trace |-> t1]
        ELSE [exc |-> g2.exc,
              user |-> IF g2.exc = NoExc THEN g1.val ELSE None,
              pass |-> g2.val,
              trace |-> Append(t1, Call("get", g2.out))]

\* A mutant: one non-empty value is taken for a complete pair.
CompleteEither(username, password) == Truthy(username) \/ Truthy(password)

\* `if username and password`
Complete(username, password) == Truthy(username) /\ Truthy(password)

\* A mutant: the prompted values are returned without reading them back.
BootstrapTrusting(st, f, account, pu, pp) ==
    LET s == set_basic_auth(st, f, 2, account, None, None, pu, pp)
        r == ReadPair(s.store, f, 2 + Len(s.trace), account)
    IN  IF s.exc # NoExc
        THEN [store |-> s.store, exc |-> s.exc, user |-> None, pass |-> None,
              trace |-> s.trace]
        ELSE [store |-> s.store, exc |-> r.exc,
              user |-> IF r.exc = NoExc THEN strip(pu) ELSE None,
              pass |-> IF r.exc = NoExc THEN pp ELSE None,
              trace |-> s.trace \o r.trace]

\* The bootstrap step: prompt and store, then read both keys back.  It runs
\* after the first two reads, so its calls start at f[3].
Bootstrap(st, f, account, pu, pp) ==
    LET s == set_basic_auth(st, f, 2, account, None, None, pu, pp)
        r == ReadPair(s.store, f, 2 + Len(s.trace), account)
    IN  IF s.exc # NoExc
        THEN [store |-> s.store, exc |-> s.exc, user |-> None, pass |-> None,
              trace |-> s.trace]
        ELSE [store |-> s.store, exc |-> r.exc, user |-> r.user, pass |-> r.pass,
              trace |-> s.trace \o r.trace]

Outcome(st, exc, user, pass, trace, prompted) ==
    [store |-> st, exc |-> exc, user |-> user, pass |-> pass, trace |-> trace,
     prompted |-> prompted]

\* A mutant: the bootstrap step runs whether or not the caller opted in.
GetBasicAuthAlwaysBootstrap(st, f, envUser, envPass, account, boot, pu, pp) ==
    LET env == _env_credentials(envUser, envPass)
        r == ReadPair(st, f, 0, account)
        b == Bootstrap(st, f, account, pu, pp)
    IN  IF env # None
        THEN Outcome(st, NoExc, env[1], env[2], <<>>, FALSE)
        ELSE IF r.exc # NoExc
        THEN Outcome(st, r.exc, None, None, r.trace, FALSE)
        ELSE IF Complete(r.user, r.pass)
        THEN Outcome(st, NoExc, r.user, r.pass, r.trace, FALSE)
        ELSE IF b.exc # NoExc
        THEN Outcome(b.store, b.exc, None, None, r.trace \o b.trace, TRUE)
        ELSE IF Complete(b.user, b.pass)
        THEN Outcome(b.store, NoExc, b.user, b.pass, r.trace \o b.trace, TRUE)
        ELSE Outcome(b.store, "MissingSecretError", None, None,
                     r.trace \o b.trace, TRUE)

\* A mutant: the keyring is consulted before the environment.
GetBasicAuthStoreFirst(st, f, envUser, envPass, account, boot, pu, pp) ==
    LET env == _env_credentials(envUser, envPass)
        r == ReadPair(st, f, 0, account)
    IN  IF r.exc = NoExc /\ Complete(r.user, r.pass)
        THEN Outcome(st, NoExc, r.user, r.pass, r.trace, FALSE)
        ELSE IF env # None
        THEN Outcome(st, NoExc, env[1], env[2], <<>>, FALSE)
        ELSE Outcome(st, "MissingSecretError", None, None, r.trace, FALSE)

\* get_basic_auth(account, interactive_bootstrap=boot) with PI_USER=envUser
\* and PI_PASS=envPass: the returned pair, or the exception raised.
get_basic_auth(st, f, envUser, envPass, account, boot, pu, pp) ==
    LET env == _env_credentials(envUser, envPass)
        r == ReadPair(st, f, 0, account)
        b == Bootstrap(st, f, account, pu, pp)
    IN  IF env # None
        THEN Outcome(st, NoExc, env[1], env[2], <<>>, FALSE)
        ELSE IF r.exc # NoExc
        THEN Outcome(st, r.exc, None, None, r.trace, FALSE)
        ELSE IF Complete(r.user, r.pass)
        THEN Outcome(st, NoExc, r.user, r.pass, r.trace, FALSE)
        ELSE IF ~boot
        THEN Outcome(st, "MissingSecretError", None, None, r.trace, FALSE)
        ELSE IF b.exc # NoExc
        THEN Outcome(b.store, b.exc, None, None, r.trace \o b.trace, TRUE)
        ELSE IF Complete(b.user, b.pass)
        THEN Outcome(b.store, NoExc, b.user, b.pass, r.trace \o b.trace, TRUE)
        ELSE Outcome(b.store, "MissingSecretError", None, None,
                     r.trace \o b.trace, TRUE)

----------------------------------------------------------------------------
(* delete_basic_auth *)

\* A mutant: both deletes share one try block, so the first
\* PasswordDeleteError skips the second delete.
DeleteBasicAuthOneTry(st, f, account) ==
    LET keys == _key_names(account)
        d1 == KeyringDelete(st, f[1], keys[1])
        d2 == KeyringDelete(d1.store, f[2], keys[2])
        t1 == <<Call("delete", d1.out)>>
    IN  IF d1.exc = "PasswordDeleteError"
        THEN [store |-> d1.store, exc |-> NoExc, trace |-> t1]
        ELSE IF d1.exc # NoExc
        THEN [store |-> d1.store, exc |-> d1.exc, trace |-> t1]
        ELSE [store |-> d2.store,
              exc |-> IF d2.exc = "PasswordDeleteError" THEN NoExc ELSE d2.exc,
              trace |-> Append(t1, Call("delete", d2.out))]

\* delete_basic_auth(account): each delete in its own try block that
\* swallows PasswordDeleteError and lets every other exception through.
delete_basic_auth(st, f, account) ==
    LET keys == _key_names(account)
        d1 == KeyringDelete(st, f[1], keys[1])
        d2 == KeyringDelete(d1.store, f[2], keys[2])
        t1 == <<Call("delete", d1.out)>>
    IN  IF d1.exc # NoExc /\ d1.exc # "PasswordDeleteError"
        THEN [store |-> d1.store, exc |-> d1.exc, trace |-> t1]
        ELSE [store |-> d2.store,
              exc |-> IF d2.exc = "PasswordDeleteError" THEN NoExc ELSE d2.exc,
              trace |-> Append(t1, Call("delete", d2.out))]

----------------------------------------------------------------------------
(* The caller: one call at a time, its arguments and outcome kept in last *)

\* A schedule is canonical for a run when each fault it holds is one the run
\* met, so that a run is not counted once per fault it never reached.
Canonical(f, trace) ==
    \A i \in 1..MaxCalls :
        f[i] # "ok" => i <= Len(trace) /\ trace[i].out = f[i]

NoCall ==
    [op |-> "none", account |-> <<>>, username |-> None, password |-> None,
     envUser |-> None, envPass |-> None, boot |-> FALSE,
     pu |-> <<>>, pp |-> <<>>, faults |-> NoFaults, pre |-> EmptyStore,
     exc |-> NoExc, user |-> None, pass |-> None, trace |-> <<>>,
     prompted |-> FALSE]

Init ==
    /\ store = EmptyStore
    /\ pc = "idle"
    /\ last = NoCall
    /\ ops = 0

\* A caller runs set_basic_auth(account, username, password).
Store ==
    /\ pc = "idle"
    /\ ops < MaxOps
    /\ \E account \in Accounts, username \in Optional, password \in Optional,
          f \in SetSchedules :
        \E pu \in IF Truthy(username) THEN {<<>>} ELSE Strings,
           pp \in IF Truthy(password) THEN {<<>>} ELSE PassPromptStrings :
            LET r == set_basic_auth(store, f, 0, account, username, password,
                                    pu, pp)
            IN  /\ Canonical(f, r.trace)
                /\ store' = r.store
                /\ last' = [NoCall EXCEPT
                              !.op = "set", !.account = account,
                              !.username = username, !.password = password,
                              !.pu = pu, !.pp = pp, !.faults = f,
                              !.pre = store, !.exc = r.exc, !.trace = r.trace,
                              !.prompted = r.promptedUser \/ r.promptedPass]
    /\ pc' = "returned"
    /\ ops' = ops + 1

\* A caller runs get_basic_auth(account, interactive_bootstrap=boot) in an
\* environment holding PI_USER=envUser, PI_PASS=envPass.
Resolve ==
    /\ pc = "idle"
    /\ ops < MaxOps
    /\ \E account \in Accounts, envUser \in EnvUserValues,
          envPass \in EnvPassValues, boot \in BOOLEAN :
        \E f \in IF _env_credentials(envUser, envPass) # None
                 THEN {NoFaults} ELSE GetSchedules :
            LET r0 == get_basic_auth(store, f, envUser, envPass, account, boot,
                                     <<>>, <<>>)
            IN  \E pu \in IF r0.prompted THEN Strings ELSE {<<>>},
                   pp \in IF r0.prompted THEN PassPromptStrings ELSE {<<>>} :
                    LET r == get_basic_auth(store, f, envUser, envPass,
                                            account, boot, pu, pp)
                    IN  /\ Canonical(f, r.trace)
                        /\ store' = r.store
                        /\ last' = [NoCall EXCEPT
                                      !.op = "get", !.account = account,
                                      !.envUser = envUser, !.envPass = envPass,
                                      !.boot = boot, !.pu = pu, !.pp = pp,
                                      !.faults = f, !.pre = store,
                                      !.exc = r.exc, !.user = r.user,
                                      !.pass = r.pass, !.trace = r.trace,
                                      !.prompted = r.prompted]
    /\ pc' = "returned"
    /\ ops' = ops + 1

\* A caller runs delete_basic_auth(account).
Delete ==
    /\ pc = "idle"
    /\ ops < MaxOps
    /\ \E account \in Accounts, f \in DeleteSchedules :
        LET r == delete_basic_auth(store, f, account)
        IN  /\ Canonical(f, r.trace)
            /\ store' = r.store
            /\ last' = [NoCall EXCEPT
                          !.op = "delete", !.account = account,
                          !.faults = f, !.pre = store, !.exc = r.exc, !.trace = r.trace]
    /\ pc' = "returned"
    /\ ops' = ops + 1

\* The caller has consumed the outcome and is free to make its next call.
Resume ==
    /\ pc = "returned"
    /\ pc' = "idle"
    /\ last' = NoCall
    /\ UNCHANGED <<store, ops>>

Next == Store \/ Resolve \/ Delete \/ Resume

Spec == Init /\ [][Next]_vars

----------------------------------------------------------------------------
(* Vocabulary of the properties *)

\* The caller holds the outcome of a call of op.
Returned(op) == pc = "returned" /\ last.op = op

\* PI_USER and PI_PASS were both set to non-empty values at the last call.
EnvPair == Truthy(last.envUser) /\ Truthy(last.envPass)

\* Exactly one of PI_USER, PI_PASS was set to a non-empty value.
EnvHalf == Truthy(last.envUser) # Truthy(last.envPass)

\* What st holds under the two keys of account.
StoredPair(st, account) ==
    <<st[_key_names(account)[1]], st[_key_names(account)[2]]>>

\* st holds a non-empty value under both keys of account.
HoldsPair(st, account) ==
    Truthy(StoredPair(st, account)[1]) /\ Truthy(StoredPair(st, account)[2])

\* The outcomes the keyring calls of the last operation had.
Outs == { last.trace[i].out : i \in 1..Len(last.trace) }

\* The kinds of keyring call the last operation made.
Calls == { last.trace[i].call : i \in 1..Len(last.trace) }

\* The last call returned the pair <<u, p>>.
ReturnedPair(u, p) == last.exc = NoExc /\ last.user = u /\ last.pass = p

\* What get_basic_auth(account) would return next, with no environment
\* override, no bootstrap and a keyring that answers.
ResolveNext(account) ==
    get_basic_auth(store, NoFaults, None, None, account, FALSE, <<>>, <<>>)

----------------------------------------------------------------------------
(* C1 *)

\* C1: whatever the keyring holds for the account and whatever the bootstrap
\* flag, get_basic_auth returns exactly (PI_USER, PI_PASS) when both are set
\* to non-empty values.
C1_EnvPairWins ==
    Returned("get") /\ EnvPair => ReturnedPair(last.envUser, last.envPass)

\* The environment pair is returned over a different complete stored pair,
\* with the bootstrap flag set.
C1_Witness ==
    /\ Returned("get") /\ EnvPair /\ last.boot
    /\ HoldsPair(last.pre, last.account)
    /\ StoredPair(last.pre, last.account)[1] # last.envUser
    /\ StoredPair(last.pre, last.account)[2] # last.envPass
    /\ ReturnedPair(last.envUser, last.envPass)

----------------------------------------------------------------------------
(* C2 *)

\* C2: with exactly one of PI_USER, PI_PASS set, get_basic_auth does what it
\* does with neither set: same outcome and same keyring afterwards; a pair it
\* returns is the pair the keyring holds, never one with an environment
\* value in it; and it returns the stored pair when the keyring holds a
\* complete one and answers.
C2_HalfEnvIgnored ==
    Returned("get") /\ EnvHalf =>
        LET bare == get_basic_auth(last.pre, last.faults, None, None,
                                   last.account, last.boot, last.pu, last.pp)
        IN  /\ last.exc = bare.exc
            /\ last.user = bare.user
            /\ last.pass = bare.pass
            /\ store = bare.store
            /\ last.exc = NoExc =>
                   <<last.user, last.pass>> = StoredPair(store, last.account)
            /\ HoldsPair(last.pre, last.account) /\ Outs \subseteq {"ok"} =>
                   /\ last.exc = NoExc
                   /\ <<last.user, last.pass>>
                          = StoredPair(last.pre, last.account)

\* PI_USER alone is set, to a value other than the stored username, and the
\* stored pair is returned.
C2_Witness ==
    /\ Returned("get") /\ Truthy(last.envUser) /\ ~Truthy(last.envPass)
    /\ HoldsPair(last.pre, last.account)
    /\ StoredPair(last.pre, last.account)[1] # last.envUser
    /\ ReturnedPair(StoredPair(last.pre, last.account)[1],
                    StoredPair(last.pre, last.account)[2])

----------------------------------------------------------------------------
(* C3 *)

\* C3 as stated: after set_basic_auth(A, u, p) with both strings supplied
\* and no keyring failure, get_basic_auth(A) returns (u, p), for all strings
\* u and p.
C3_StoreRoundTripAnyStrings ==
    /\ Returned("set") /\ last.exc = NoExc /\ Outs \subseteq {"ok"}
    /\ last.username # None /\ last.password # None
    =>  /\ ResolveNext(last.account).exc = NoExc
        /\ ResolveNext(last.account).user = last.username
        /\ ResolveNext(last.account).pass = last.password

\* C3: after set_basic_auth(A, u, p) with non-empty u and p and no keyring
\* failure, whatever the keyring held before, get_basic_auth(A) returns
\* exactly (u, p), with no prompt.
C3_StoreRoundTrip ==
    /\ Returned("set") /\ last.exc = NoExc /\ Outs \subseteq {"ok"}
    /\ Truthy(last.username) /\ Truthy(last.password)
    => /\ ~last.prompted
       /\ ResolveNext(last.account).exc = NoExc
       /\ ResolveNext(last.account).user = last.username
       /\ ResolveNext(last.account).pass = last.password
       /\ ResolveNext(last.account).store = store

\* A username with surrounding blanks overwrites a different complete pair
\* and is read back as given.
C3_Witness ==
    /\ Returned("set") /\ last.exc = NoExc /\ Outs \subseteq {"ok"}
    /\ last.username = <<" ", "a", " ">> /\ Truthy(last.password)
    /\ HoldsPair(last.pre, last.account)
    /\ StoredPair(last.pre, last.account)[1] # last.username
    /\ StoredPair(last.pre, last.account)[2] # last.password
    /\ ResolveNext(last.account).user = last.username

----------------------------------------------------------------------------
(* C4 *)

\* C4: with no complete environment pair, no bootstrap and a keyring that
\* answers, get_basic_auth raises MissingSecretError unless the keyring holds
\* a non-empty value under both keys of the account, and then returns them.
C4_MissingUnlessStored ==
    /\ Returned("get") /\ ~EnvPair /\ ~last.boot /\ Outs \subseteq {"ok"}
    => IF HoldsPair(last.pre, last.account)
       THEN ReturnedPair(StoredPair(last.pre, last.account)[1],
                         StoredPair(last.pre, last.account)[2])
       ELSE last.exc = "MissingSecretError"

\* The username key holds the empty string beside a non-empty password, and
\* the call raises MissingSecretError.
C4_Witness ==
    /\ Returned("get") /\ ~EnvPair /\ ~last.boot /\ Outs \subseteq {"ok"}
    /\ StoredPair(last.pre, last.account)[1] = <<>>
    /\ Truthy(StoredPair(last.pre, last.account)[2])
    /\ last.exc = "MissingSecretError"

----------------------------------------------------------------------------
(* C5 *)

\* C5: when each keyring delete ends in success or not-found,
\* delete_basic_auth returns normally, neither key of the account is left,
\* and the next get_basic_auth(A) raises MissingSecretError.
C5_DeleteThenMissing ==
    Returned("delete") /\ Outs \subseteq {"ok", "not_found"} =>
        /\ last.exc = NoExc
        /\ StoredPair(store, last.account) = <<None, None>>
        /\ ResolveNext(last.account).exc = "MissingSecretError"

\* Only the password key was present: the first delete finds nothing, the
\* second removes the key.
C5_Witness ==
    /\ Returned("delete") /\ last.exc = NoExc
    /\ StoredPair(last.pre, last.account)[1] = None
    /\ StoredPair(last.pre, last.account)[2] # None
    /\ last.trace = <<Call("delete", "not_found"), Call("delete", "ok")>>

----------------------------------------------------------------------------
(* C6 *)

\* C6 as stated: from an empty keyring, with no environment variables and
\* bootstrap, get_basic_auth returns the prompt inputs (u, p) and so does a
\* following call without bootstrap, for all inputs u and p.
C6_BootstrapReturnsInputs ==
    /\ Returned("get") /\ last.pre = EmptyStore /\ last.boot
    /\ last.envUser = None /\ last.envPass = None /\ Outs \subseteq {"ok"}
    => /\ ReturnedPair(last.pu, last.pp)
       /\ ResolveNext(last.account).exc = NoExc
       /\ ResolveNext(last.account).user = last.pu
       /\ ResolveNext(last.account).pass = last.pp

\* C6: from an empty keyring, with no environment variables and bootstrap,
\* get_basic_auth returns (strip(u), p) for the prompt inputs (u, p), and so
\* does a following call without bootstrap, when strip(u) and p are
\* non-empty; otherwise both calls raise MissingSecretError.
C6_BootstrapPersists ==
    /\ Returned("get") /\ last.pre = EmptyStore /\ last.boot
    /\ last.envUser = None /\ last.envPass = None /\ Outs \subseteq {"ok"}
    => /\ last.prompted
       /\ IF Truthy(strip(last.pu)) /\ Truthy(last.pp)
          THEN /\ ReturnedPair(strip(last.pu), last.pp)
               /\ ResolveNext(last.account).exc = NoExc
               /\ ResolveNext(last.account).user = strip(last.pu)
               /\ ResolveNext(last.account).pass = last.pp
          ELSE /\ last.exc = "MissingSecretError"
               /\ ResolveNext(last.account).exc = "MissingSecretError"

\* The operator types a username without surrounding blanks and a password;
\* both come back as typed and are found by the next call.
C6_Witness ==
    /\ Returned("get") /\ last.pre = EmptyStore /\ last.boot
    /\ last.envUser = None /\ last.envPass = None /\ Outs \subseteq {"ok"}
    /\ last.pu = <<"a">> /\ Truthy(last.pp)
    /\ ReturnedPair(last.pu, last.pp)
    /\ ResolveNext(last.account).user = last.pu

----------------------------------------------------------------------------
(* C7 *)

\* C7: a keyring failure other than not-found on delete, met by any keyring
\* call of any operation, reaches the caller as that failure: the operation
\* neither returns normally nor raises MissingSecretError.
C7_OnlyNotFoundRecovered ==
    pc = "returned" /\ Outs \cap {"raise", "cannot_delete"} # {} =>
        last.exc = "KeyringError"

----------------------------------------------------------------------------
(* C8 *)

\* C8: the two keys of an account differ; the keys of two different accounts
\* are disjoint, also for account names ending in a key suffix; and
\* set_basic_auth(A) and delete_basic_auth(A) leave the keys of every other
\* account as they were.
C8_KeysApart ==
    /\ \A a \in AccountNames : _key_names(a)[1] # _key_names(a)[2]
    /\ \A a, b \in AccountNames : a # b => KeysOf(a) \cap KeysOf(b) = {}
    /\ Accounts \subseteq AccountNames
    /\ pc = "returned" /\ last.op \in {"set", "delete"} =>
           \A b \in Accounts \ {last.account} :
               StoredPair(store, b) = StoredPair(last.pre, b)

\* A credential is written for account "p" while the account named
\* "p:username" holds a complete pair.
C8_Witness ==
    /\ Returned("set") /\ last.account = <<"p">>
    /\ store # last.pre
    /\ HoldsPair(store, <<"p">> \o UserSuffix)
    /\ HoldsPair(store, <<"p">>)

----------------------------------------------------------------------------
(* C9 *)

\* The last call left the keyring as it was, prompted for nothing and made
\* no keyring write.
Untouched == store = last.pre /\ ~last.prompted /\ "set" \notin Calls

\* C9: get_basic_auth leaves the keyring unchanged and does not prompt when
\* bootstrap is off, when a complete environment pair is set, or when the
\* keyring holds a complete pair for the account; it writes and prompts only
\* with bootstrap on and neither source complete.
C9_ResolveFrame ==
    Returned("get") =>
        /\ ~last.boot \/ EnvPair \/ HoldsPair(last.pre, last.account)
               => Untouched
        /\ ~Untouched =>
               last.boot /\ ~EnvPair /\ ~HoldsPair(last.pre, last.account)

\* Bootstrap is on and the keyring holds no pair, but the environment pair
\* is set: nothing is written and nothing is asked.
C9_Witness ==
    /\ Returned("get") /\ last.boot /\ EnvPair
    /\ ~HoldsPair(last.pre, last.account)
    /\ Untouched

----------------------------------------------------------------------------
(* C10 *)

\* A keyring write of the last call returned without persisting its value.
Dropped == "drop" \in Outs

\* C10 as stated: a pair get_basic_auth returns from the keyring or from
\* bootstrap is the pair the keyring holds at the return; and when a write
\* of the bootstrap is silently dropped, the call raises MissingSecretError.
C10_DroppedWriteIsMissing ==
    Returned("get") /\ ~EnvPair =>
        /\ last.exc = NoExc =>
               <<last.user, last.pass>> = StoredPair(store, last.account)
        /\ Dropped /\ "raise" \notin Outs =>
               last.exc = "MissingSecretError"

\* C10: a pair get_basic_auth returns from the keyring or from bootstrap is
\* the pair the keyring holds at the return; and when a silently dropped
\* write of the bootstrap leaves a key of the account absent or empty, the
\* call raises MissingSecretError instead of returning the prompted values.
C10_ReturnsWhatIsStored ==
    Returned("get") /\ ~EnvPair =>
        /\ last.exc = NoExc =>
               <<last.user, last.pass>> = StoredPair(store, last.account)
        /\ Dropped /\ "raise" \notin Outs /\ ~HoldsPair(store, last.account) =>
               last.exc = "MissingSecretError"

\* The operator typed a complete pair, a write was dropped, and the call
\* raises MissingSecretError.
C10_Witness ==
    /\ Returned("get") /\ ~EnvPair /\ Dropped
    /\ Truthy(strip(last.pu)) /\ Truthy(last.pp)
    /\ last.exc = "MissingSecretError"

====
